---------------------------- MODULE Spec2Model ----------------------------
(***************************************************************************)
(* Model of the assignment engine of the event signup roster generator    *)
(* (src/main.py): the break rule (apply_break_rule) and the booth          *)
(* assignment (assign_booths), over the roster model (Volunteer, Booth).   *)
(*                                                                         *)
(* Strings are sequences of code points, so that str.lower() and the       *)
(* ordering of names are computed and not assumed.  A volunteer's email    *)
(* (the key of the volunteers dict) is a number; the volunteers dict is a  *)
(* sequence in insertion order.                                            *)
(***************************************************************************)
EXTENDS Integers, Sequences, FiniteSets, TLC

(***************************************************************************)
(* Bounds of the model.                                                    *)
(***************************************************************************)
MaxVols == 3
MaxBooths == 2
MaxBreakRuns == 2
MaxVolsTwice == 2                         \* volunteers of a run made twice
MaxVolsWithout == 3                       \* volunteers of a run made with and without the idle ones

(***************************************************************************)
(* Program constants.                                                      *)
(***************************************************************************)
SETUP == 4
CLEANUP == 8
Shifts == SETUP..CLEANUP                  \* the values of SHIFT_MAP
\* Variant: setup and cleanup are assigned like the other shifts.
ASSIGNED_SHIFTS_all == <<4, 5, 6, 7, 8>>

ASSIGNED_SHIFTS == <<5, 6, 7>>
CAPACITY_PER_SHIFT == 2
BREAK_THRESHOLD == 4

\* Booth names: the non-empty, distinct BoothName cells of the booth file.
BoothNames == <<"B1", "B2", "B3", "B4">>

\* First and last names as code points: "brown", "Brown", "al", "Bo".
brown == <<98, 114, 111, 119, 110>>
Brown == <<66, 114, 111, 119, 110>>
al == <<97, 108>>
Bo == <<66, 111>>

\* The people who may sign up.  In the order of the code brown al comes
\* before Brown Bo: the last names are equal once lowered and the first
\* names decide; comparing the names as written would give the reverse.
\* Two volunteers (two emails) may carry the same name.
People ==
    { [last_name |-> brown, first_name |-> al],
      [last_name |-> Brown, first_name |-> Bo] }

\* Every shift-set a volunteer may have signed up for: add_shift is called
\* for every volunteer created, so a shift-set is never empty.
AllSignupSets == (SUBSET Shifts) \ {{}}

\* The shift-sets of the runs of the whole engine: one, two and three
\* assignable shifts, in a row, with a gap and joining late, one with
\* cleanup that the break rule leaves alone, and one of four shifts, with
\* setup, from which the break rule takes an assignable shift.
SignupSets ==
    { {5}, {5, 6}, {5, 7}, {6, 7}, {5, 6, 7}, {7, 8}, {4, 5, 6, 7} }

VARIABLES
    volunteers,         \* dict email -> Volunteer, as a sequence in insertion order
    booths,             \* list[Booth]
    signup,             \* the volunteers as loaded (history, never changed)
    pc,                 \* position of the run
    break_runs,         \* number of calls of apply_break_rule so far
    sorted_volunteers,  \* assign_booths: emails in processing order
    booth_index,        \* assign_booths: the round-robin cursor
    booth_count,        \* assign_booths: len(booths)
    shift_i,            \* assign_booths: index into ASSIGNED_SHIFTS of the outer loop
    vol_i,              \* assign_booths: index into sorted_volunteers of the inner loop
    attempts,           \* assign_booths: attempts of the current fallback scan
    first_run           \* the outcome of the first of two runs (history)

vars == <<volunteers, booths, signup, pc, break_runs, sorted_volunteers,
          booth_index, booth_count, shift_i, vol_i, attempts, first_run>>

engineVars == <<sorted_volunteers, booth_index, booth_count, shift_i, vol_i, attempts>>

(***************************************************************************)
(* Helpers on sets and sequences.                                          *)
(***************************************************************************)
Max(S) == CHOOSE x \in S : \A y \in S : y <= x

(***************************************************************************)
(* Roster model.                                                           *)
(***************************************************************************)
\* Volunteer(first_name, last_name, email): shifts and booths_per_shift empty.
Volunteer(first_name, last_name, email) ==
    [first_name |-> first_name, last_name |-> last_name, email |-> email,
     shifts |-> {}, booths_per_shift |-> <<>>]

\* Volunteer.remove_shift: discard the shift and its booth entry.
remove_shift(vol, shift) ==
    [vol EXCEPT !.shifts = @ \ {shift},
                !.booths_per_shift =
                    [s \in (DOMAIN @) \ {shift} |-> @[s]]]

\* Booth(name): a defaultdict(list) reads as [] for every shift.
Booth(name) == [name |-> name, assignments |-> [s \in Shifts |-> <<>>]]

\* Booth.has_space
has_space(booth, shift) == Len(booth.assignments[shift]) < CAPACITY_PER_SHIFT

\* Variant: the capacity test admits one volunteer too many.
assign_ok_over(booth, shift) == Len(booth.assignments[shift]) <= CAPACITY_PER_SHIFT

\* Booth.assign_volunteer: the condition under which it returns True ...
assign_ok(booth, shift) == Len(booth.assignments[shift]) < CAPACITY_PER_SHIFT

\* Variant: the new occupant is put in front of the list.
assign_volunteer_front(booth, shift, email) ==
    IF assign_ok(booth, shift)
    THEN [booth EXCEPT !.assignments[shift] = <<email>> \o @]
    ELSE booth

\* ... and the booth it leaves behind.
assign_volunteer(booth, shift, email) ==
    IF assign_ok(booth, shift)
    THEN [booth EXCEPT !.assignments[shift] = Append(@, email)]
    ELSE booth

(***************************************************************************)
(* Break rule.                                                             *)
(***************************************************************************)
\* Variant: the break only for more than four shifts.
break_one_above(vol) ==
    IF Cardinality(vol.shifts) > BREAK_THRESHOLD
    THEN remove_shift(vol, Max(vol.shifts))
    ELSE vol

\* Variant: the earliest shift is removed.
break_one_earliest(vol) ==
    IF Cardinality(vol.shifts) >= BREAK_THRESHOLD
    THEN remove_shift(vol, CHOOSE x \in vol.shifts : \A y \in vol.shifts : x <= y)
    ELSE vol

\* Variant: the break already from three shifts on.
break_one_early(vol) ==
    IF Cardinality(vol.shifts) >= BREAK_THRESHOLD - 1
    THEN remove_shift(vol, Max(vol.shifts))
    ELSE vol

\* The body of the loop of apply_break_rule, for one volunteer.
break_one(vol) ==
    IF Cardinality(vol.shifts) >= BREAK_THRESHOLD
    THEN remove_shift(vol, Max(vol.shifts))
    ELSE vol

apply_break_rule(vols) == [i \in DOMAIN vols |-> break_one(vols[i])]

(***************************************************************************)
(* Sorting of the volunteers.                                              *)
(***************************************************************************)
\* str.lower() on one code point, and on a string.
LowerChar(c) == IF c \in 65..90 THEN c + 32 ELSE c

Lower(str) == [i \in DOMAIN str |-> LowerChar(str[i])]

\* Python's < on strings: lexicographic on code points, a proper prefix first.
RECURSIVE StrLess(_, _)
StrLess(a, b) ==
    IF b = <<>> THEN FALSE
    ELSE IF a = <<>> THEN TRUE
    ELSE IF Head(a) # Head(b) THEN Head(a) < Head(b)
    ELSE StrLess(Tail(a), Tail(b))

\* Variant: the names are compared as written.
SortKey_raw(vol) == <<vol.last_name, vol.first_name>>

\* The key of the sort: (last_name.lower(), first_name.lower()).
SortKey(vol) == <<Lower(vol.last_name), Lower(vol.first_name)>>

\* Python's < on the key tuples.
KeyLess(k1, k2) ==
    IF k1[1] # k2[1] THEN StrLess(k1[1], k2[1]) ELSE StrLess(k1[2], k2[2])

\* e1 comes before e2 in sorted(): by the key, and for equal keys in the
\* order of the input, as the sort is stable.
SortsBefore(vols, e1, e2) ==
    \/ KeyLess(SortKey(vols[e1]), SortKey(vols[e2]))
    \/ /\ ~KeyLess(SortKey(vols[e2]), SortKey(vols[e1]))
       /\ e1 < e2

\* sorted(volunteers.values(), key=...), as the emails in processing order:
\* each volunteer stands after all those that come before it.
SortedVolunteers(vols) ==
    [k \in 1..Len(vols) |->
        CHOOSE e \in DOMAIN vols :
            Cardinality({x \in DOMAIN vols : SortsBefore(vols, x, e)}) = k - 1]

(***************************************************************************)
(* Initial states: what the loaders hand to the engine.                    *)
(***************************************************************************)
LoadedVolunteer(person, email, shifts) ==
    [Volunteer(person.first_name, person.last_name, email) EXCEPT !.shifts = shifts]

LoadedBooths(n) == [i \in 1..n |-> Booth(BoothNames[i])]

InitEngine ==
    /\ pc = "loaded"
    /\ break_runs = 0
    /\ sorted_volunteers = <<>>
    /\ booth_index = 0
    /\ booth_count = 0
    /\ shift_i = 0
    /\ vol_i = 0
    /\ attempts = 0
    /\ first_run = <<>>

\* Up to max volunteers, any of the people with any of the shift-sets, in
\* any insertion order, and up to MaxBooths booths.
InitWith(max, people, sets) ==
    /\ \E n \in 0..max :
         \E who \in [1..n -> people], sh \in [1..n -> sets] :
            volunteers = [i \in 1..n |-> LoadedVolunteer(who[i], i, sh[i])]
    /\ \E m \in 0..MaxBooths : booths = LoadedBooths(m)
    /\ signup = volunteers
    /\ InitEngine

Init == InitWith(MaxVols, People, SignupSets)

(***************************************************************************)
(* main: the break rule, once, before the assignment.                      *)
(***************************************************************************)
ApplyBreakRule ==
    /\ pc = "loaded"
    /\ volunteers' = apply_break_rule(volunteers)
    /\ break_runs' = break_runs + 1
    /\ pc' = "assign"
    /\ UNCHANGED <<booths, signup, first_run, engineVars>>

(***************************************************************************)
(* assign_booths.                                                          *)
(***************************************************************************)
\* The position of the loops after the body has run for (si, vi).
NextPos(si, vi, n) ==
    IF vi < n THEN <<si, vi + 1>>
    ELSE IF si < Len(ASSIGNED_SHIFTS) /\ n > 0 THEN <<si + 1, 1>>
    ELSE <<0, 0>>

Advance ==
    LET p == NextPos(shift_i, vol_i, Len(sorted_volunteers)) IN
    /\ shift_i' = p[1]
    /\ vol_i' = p[2]
    /\ pc' = IF p = <<0, 0>> THEN "done" ELSE "for"

shift == ASSIGNED_SHIFTS[shift_i]           \* the shift of the outer loop
email == sorted_volunteers[vol_i]           \* the volunteer of the inner loop
vol == volunteers[email]

\* Variant: the shift-set as loaded is read, not the one the break rule left.
\* Variant: every volunteer counts as signed up for every shift.
SignedUp_any(v, s) == TRUE

SignedUp_loaded(v, s) == s \in signup[v.email].shifts

\* shift in vol.shifts
SignedUp(v, s) == s \in v.shifts

\* Variant: the booth of the shift itself is looked up, which is never set yet.
prev_booth_name_same ==
    IF shift \in DOMAIN vol.booths_per_shift
    THEN vol.booths_per_shift[shift]
    ELSE ""

\* vol.booths_per_shift.get(shift - 1), None as "".
prev_booth_name ==
    IF (shift - 1) \in DOMAIN vol.booths_per_shift
    THEN vol.booths_per_shift[shift - 1]
    ELSE ""

\* Variant: no booth is ever found by its name.
FindBooth_none(name) == 0

\* next((b for b in booths if b.name == name), None), as an index, None as 0.
FindBooth(name) ==
    IF \E i \in DOMAIN booths : booths[i].name = name
    THEN CHOOSE i \in DOMAIN booths :
            /\ booths[i].name = name
            /\ \A j \in DOMAIN booths : booths[j].name = name => i <= j
    ELSE 0

\* The booth of the continuity attempt, 0 when there is none to try.
ContinuityBooth == IF prev_booth_name # "" THEN FindBooth(prev_booth_name) ELSE 0

\* if booth and booth.assign_volunteer(shift, vol.email)
ContinuityOk ==
    IF ContinuityBooth = 0 THEN FALSE ELSE assign_ok(booths[ContinuityBooth], shift)

\* Variant: the cursor is kept from an earlier run.
InitialBoothIndex_kept(left) == left

\* booth_index = 0, whatever an earlier run left.
InitialBoothIndex(left) == 0

\* Variant: the scan always looks at the first booth.
CursorBooth_first(index, count) == 1

\* booth = booths[booth_index % booth_count], as an index from 1.
CursorBooth(index, count) == (index % count) + 1

\* Variant: the cursor does not move.
NextIndex_stuck(index) == index

\* Variant: the cursor moves by two booths.
NextIndex_two(index) == index + 2

\* booth_index += 1
NextIndex(index) == index + 1

\* Variant: the booth takes the volunteer, the volunteer records nothing.
Place_unrecorded(b) ==
    /\ booths' = [booths EXCEPT ![b] = assign_volunteer(@, shift, vol.email)]
    /\ volunteers' = volunteers

\* booth.assign_volunteer(shift, vol.email) returned True:
\* vol.booths_per_shift[shift] = booth.name
Place(b) ==
    /\ booths' = [booths EXCEPT ![b] = assign_volunteer(@, shift, vol.email)]
    /\ volunteers' = [volunteers EXCEPT ![email].booths_per_shift =
                        [s \in (DOMAIN @) \cup {shift} |->
                            IF s = shift THEN booths[b].name ELSE @[s]]]

\* Variant: the scan goes on whatever the number of attempts.
WhileCond_always(a, n) == TRUE

\* Variant: the scan gives up one booth early.
WhileCond_short(a, n) == a < n - 1

\* Variant: the scan makes one attempt too many.
WhileCond_over(a, n) == a <= n

\* The condition of the while loop of the fallback scan.
WhileCond(a, n) == a < n

StartAssign ==
    /\ pc = "assign"
    /\ booth_index' = InitialBoothIndex(booth_index)
    /\ booth_count' = Len(booths)
    /\ sorted_volunteers' = SortedVolunteers(volunteers)
    /\ attempts' = 0
    /\ IF Len(volunteers) = 0
       THEN pc' = "done" /\ shift_i' = 0 /\ vol_i' = 0
       ELSE pc' = "for" /\ shift_i' = 1 /\ vol_i' = 1
    /\ UNCHANGED <<volunteers, booths, signup, first_run, break_runs>>

\* if shift not in vol.shifts: continue
SkipVolunteer ==
    /\ pc = "for"
    /\ ~SignedUp(vol, shift)
    /\ Advance
    /\ UNCHANGED <<volunteers, booths, signup, first_run, break_runs, sorted_volunteers,
                   booth_index, booth_count, attempts>>

\* The continuity attempt succeeds.
Continuity ==
    /\ pc = "for"
    /\ SignedUp(vol, shift)
    /\ ContinuityOk
    /\ Place(ContinuityBooth)
    /\ Advance
    /\ UNCHANGED <<signup, first_run, break_runs, sorted_volunteers, booth_index,
                   booth_count, attempts>>

\* No booth to continue in, or it is full: attempts = 0.
BeginFallback ==
    /\ pc = "for"
    /\ SignedUp(vol, shift)
    /\ ~ContinuityOk
    /\ attempts' = 0
    /\ pc' = "while"
    /\ UNCHANGED <<volunteers, booths, signup, first_run, break_runs, sorted_volunteers,
                   booth_index, booth_count, shift_i, vol_i>>

\* One turn of the while loop.
Attempt ==
    /\ pc = "while"
    /\ WhileCond(attempts, booth_count)
    /\ IF booth_count = 0
       THEN \* booth_index % booth_count raises ZeroDivisionError
            /\ pc' = "error"
            /\ UNCHANGED <<volunteers, booths, booth_index, attempts, shift_i, vol_i>>
       ELSE LET b == CursorBooth(booth_index, booth_count) IN
            /\ booth_index' = NextIndex(booth_index)
            /\ attempts' = attempts + 1
            /\ IF assign_ok(booths[b], shift)
               THEN Place(b) /\ Advance
               ELSE UNCHANGED <<volunteers, booths, pc, shift_i, vol_i>>
    /\ UNCHANGED <<signup, first_run, break_runs, sorted_volunteers, booth_count>>

\* The while loop ends without a placement: the volunteer stays unassigned.
GiveUp ==
    /\ pc = "while"
    /\ ~WhileCond(attempts, booth_count)
    /\ Advance
    /\ UNCHANGED <<volunteers, booths, signup, first_run, break_runs, sorted_volunteers,
                   booth_index, booth_count, attempts>>

Next ==
    \/ ApplyBreakRule
    \/ StartAssign
    \/ SkipVolunteer
    \/ Continuity
    \/ BeginFallback
    \/ Attempt
    \/ GiveUp

Spec == Init /\ [][Next]_vars

\* The run is one synchronous call: a step that can be taken is taken.
\* Whether a run ends does not depend on the names, and of the shift-sets
\* on which loops they drive: a volunteer of one shift, of consecutive
\* shifts from the first or a later one, of all three, and of none.
LiveSignupSets == { {5}, {5, 6}, {6, 7}, {5, 6, 7}, {8} }

InitLive ==
    InitWith(MaxVols, {[last_name |-> brown, first_name |-> al]}, LiveSignupSets)

SpecLive == InitLive /\ [][Next]_vars /\ WF_vars(Next)

(***************************************************************************)
(* The break rule alone, called again on its own result, on volunteers     *)
(* with any shift-set.                                                     *)
(***************************************************************************)
InitBreak ==
    /\ \E n \in 1..MaxVols :
         \E sh \in [1..n -> AllSignupSets] :
            volunteers = [i \in 1..n |->
                            LoadedVolunteer([last_name |-> brown, first_name |-> al],
                                            i, sh[i])]
    /\ booths = LoadedBooths(0)
    /\ signup = volunteers
    /\ InitEngine

BreakRuleAgain ==
    /\ pc = "assign"
    /\ break_runs < MaxBreakRuns
    /\ volunteers' = apply_break_rule(volunteers)
    /\ break_runs' = break_runs + 1
    /\ UNCHANGED <<booths, signup, first_run, pc, engineVars>>

NextBreak ==
    \/ ApplyBreakRule
    \/ BreakRuleAgain

SpecBreak == InitBreak /\ [][NextBreak]_vars

(***************************************************************************)
(* The engine run twice on the same input: the outcome of the first run    *)
(* is kept, and the volunteers and the booths are loaded again.            *)
(***************************************************************************)
Rerun ==
    /\ pc = "done"
    /\ first_run = <<>>
    /\ first_run' = <<volunteers, booths>>
    /\ volunteers' = signup
    /\ booths' = LoadedBooths(Len(booths))
    /\ break_runs' = 0
    /\ pc' = "loaded"
    /\ UNCHANGED <<signup, engineVars>>

NextTwice ==
    \/ Next
    \/ Rerun

InitTwice == InitWith(MaxVolsTwice, People, SignupSets)

SpecTwice == InitTwice /\ [][NextTwice]_vars

(***************************************************************************)
(* The engine run on the input, and then on the input without the          *)
(* volunteers that have none of the shifts 5, 6, 7: the outcome of the     *)
(* first run is kept with its cursor, the remaining sign-ups are loaded in *)
(* their order, numbered anew, and the booths are loaded again.            *)
(***************************************************************************)
WithoutSets == { {5}, {5, 6}, {6, 7}, {5, 6, 7}, {8}, {4, 5, 6, 7} }

\* The sign-up v leaves no assignable shift to the engine.
Idle(v) == apply_break_rule(<<v>>)[1].shifts \cap {5, 6, 7} = {}

\* The sign-ups without the idle ones, numbered in their order.
WithoutIdle(vols) ==
    LET kept == SelectSeq(vols, LAMBDA v : ~Idle(v))
    IN  [k \in DOMAIN kept |-> [kept[k] EXCEPT !.email = k]]

RerunWithout ==
    /\ pc = "done"
    /\ first_run = <<>>
    /\ first_run' = <<volunteers, booths, booth_index>>
    /\ volunteers' = WithoutIdle(signup)
    /\ booths' = LoadedBooths(Len(booths))
    /\ break_runs' = 0
    /\ pc' = "loaded"
    /\ UNCHANGED <<signup, engineVars>>

NextWithout ==
    \/ Next
    \/ RerunWithout

InitWithout == InitWith(MaxVolsWithout, People, WithoutSets)

SpecWithout == InitWithout /\ [][NextWithout]_vars

(***************************************************************************)
(* Properties.                                                             *)
(***************************************************************************)
\* The candidates of shift s, in processing order.
Candidates(s) ==
    SelectSeq(sorted_volunteers, LAMBDA e : s \in volunteers[e].shifts)

\* Volunteer i has a booth recorded for shift s.
Assigned(i, s) == s \in DOMAIN volunteers[i].booths_per_shift

NumShifts(v) == Cardinality(v.shifts)

\* C1: in every state of a run, every booth holds at most capacity_per_shift
\* (2) volunteers for every shift.
C1_Capacity ==
    \A b \in DOMAIN booths : \A s \in Shifts :
        Len(booths[b].assignments[s]) <= 2

\* A fallback attempt has just been refused by a full booth.
C1_Witness ==
    /\ pc = "while"
    /\ attempts >= 1
    /\ \E b \in DOMAIN booths : Len(booths[b].assignments[shift]) = 2

\* C2, as claimed: after one run of the break rule every volunteer who had
\* signed up for 4 or more shifts has at most 3.
C2_Original ==
    break_runs = 1 =>
        \A i \in DOMAIN volunteers :
            NumShifts(signup[i]) >= 4 => NumShifts(volunteers[i]) <= 3

\* C2, amended: after one run of the break rule a volunteer who had signed
\* up for exactly 4 shifts has at most 3, and one who had signed up for all
\* five has 4.
C2_Amended ==
    break_runs = 1 =>
        \A i \in DOMAIN volunteers :
            /\ NumShifts(signup[i]) = 4 => NumShifts(volunteers[i]) <= 3
            /\ NumShifts(signup[i]) = 5 => NumShifts(volunteers[i]) = 4

\* One run over a volunteer of four shifts and one of five.
C2_Witness ==
    /\ break_runs = 1
    /\ \E i, j \in DOMAIN volunteers :
          NumShifts(signup[i]) = 4 /\ NumShifts(signup[j]) = 5

\* C3: one run of the break rule takes from every volunteer of 4 or more
\* shifts exactly the latest shift, and leaves the volunteer's other shifts.
C3_RemovesLatest ==
    [][\A i \in DOMAIN volunteers :
          NumShifts(volunteers[i]) >= 4 =>
              \E m \in volunteers[i].shifts :
                  /\ \A x \in volunteers[i].shifts : x <= m
                  /\ volunteers'[i].shifts = volunteers[i].shifts \ {m}]_vars

\* {5,6,7,8} has become {5,6,7}.
C3_Witness ==
    /\ break_runs = 1
    /\ \E i \in DOMAIN volunteers :
          signup[i].shifts = {5, 6, 7, 8} /\ volunteers[i].shifts = {5, 6, 7}

\* C4: a run of the break rule leaves every volunteer of 3 or fewer shifts
\* as it was, also one it has reduced to 3 shifts before.
C4_FewShiftsUntouched ==
    [][\A i \in DOMAIN volunteers :
          NumShifts(volunteers[i]) <= 3 => volunteers'[i] = volunteers[i]]_vars

\* The rule has run again over a volunteer it had reduced from 4 to 3 shifts.
C4_Witness ==
    /\ break_runs = 2
    /\ \E i \in DOMAIN volunteers :
          NumShifts(signup[i]) = 4 /\ NumShifts(volunteers[i]) = 3

\* The booth (index) named n, by its name.
BoothNamed(n) == CHOOSE b \in DOMAIN booths : booths[b].name = n

\* Volunteer e holds, for a shift before s, a booth that has room for s.
HeldWithRoom(e, s) ==
    { volunteers[e].booths_per_shift[s2] :
        s2 \in { x \in DOMAIN volunteers[e].booths_per_shift :
                   /\ x < s
                   /\ \E b \in DOMAIN booths :
                        /\ booths[b].name = volunteers[e].booths_per_shift[x]
                        /\ has_space(booths[b], s) } }

\* C5: a candidate for shift S+1 who holds booth B for shift S, B having
\* room for S+1 when the candidate is processed, is placed in B for S+1, and
\* the cursor is not consulted.
C5_Continuity ==
    [][(/\ pc = "for"
        /\ shift \in vol.shifts
        /\ (shift - 1) \in DOMAIN vol.booths_per_shift
        /\ \E b \in DOMAIN booths :
              /\ booths[b].name = vol.booths_per_shift[shift - 1]
              /\ has_space(booths[b], shift))
       => (LET B == vol.booths_per_shift[shift - 1] IN
           /\ shift \in DOMAIN volunteers'[email].booths_per_shift
           /\ volunteers'[email].booths_per_shift[shift] = B
           /\ booths'[BoothNamed(B)].assignments[shift] =
                  Append(booths[BoothNamed(B)].assignments[shift], vol.email)
           /\ booth_index' = booth_index
           /\ pc' # "while")]_vars

\* A volunteer holds the same booth for shifts 5 and 6 after one single
\* fallback attempt in the whole run.
C5_Witness ==
    /\ booth_index = 1
    /\ booth_count = 2
    /\ \E i \in DOMAIN volunteers :
          /\ Assigned(i, 5)
          /\ Assigned(i, 6)
          /\ volunteers[i].booths_per_shift[5] = volunteers[i].booths_per_shift[6]

\* C6: a candidate who holds, for any earlier shift, a booth that has room
\* for the shift being processed is placed in such a booth.
C6_Original ==
    [][(/\ pc = "for"
        /\ shift \in vol.shifts
        /\ HeldWithRoom(email, shift) # {})
       => /\ shift \in DOMAIN volunteers'[email].booths_per_shift
          /\ volunteers'[email].booths_per_shift[shift]
                \in HeldWithRoom(email, shift)]_vars

\* C7, as claimed: of three candidates for shift 5 and two booths, the
\* first two are in the first booth and the third is in the second.
C7_Original ==
    (pc = "done" /\ booth_count = 2 /\ Len(Candidates(5)) = 3) =>
        LET c == Candidates(5) IN
        /\ booths[1].assignments[5] = <<c[1], c[2]>>
        /\ booths[2].assignments[5] = <<c[3]>>

\* C7, amended: of three candidates for shift 5 and two booths, the first
\* and the third are in the first booth and the second is in the second.
C7_Amended ==
    (pc = "done" /\ booth_count = 2 /\ Len(Candidates(5)) = 3) =>
        LET c == Candidates(5) IN
        /\ booths[1].assignments[5] = <<c[1], c[3]>>
        /\ booths[2].assignments[5] = <<c[2]>>

\* A run over two booths and three candidates for shift 5 has ended.
C7_Witness ==
    /\ pc = "done"
    /\ booth_count = 2
    /\ Len(Candidates(5)) = 3
    /\ \A k \in 1..3 : Assigned(Candidates(5)[k], 5)

\* C8: a fallback scan gives up only when every booth is full for the
\* shift; at the end of a run over N booths, the candidates of each
\* assignable shift without a booth are those after the first 2N in
\* processing order.
C8_Unassigned ==
    /\ [][(pc = "while" /\ pc' \in {"for", "done"} /\ volunteers' = volunteers)
            => \A b \in DOMAIN booths : ~has_space(booths[b], shift)]_vars
    /\ [](pc = "done" =>
            \A s \in {5, 6, 7} : \A k \in 1..Len(Candidates(s)) :
                Assigned(Candidates(s)[k], s) <=> k <= 2 * Len(booths))

\* One booth, three candidates for a shift: the third has no booth.
C8_Witness ==
    /\ pc = "done"
    /\ Len(booths) = 1
    /\ \E s \in {5, 6, 7} :
          /\ Len(Candidates(s)) = 3
          /\ Assigned(Candidates(s)[1], s)
          /\ Assigned(Candidates(s)[2], s)
          /\ ~Assigned(Candidates(s)[3], s)

\* C9: the second of two runs on the same volunteers and booths ends with
\* the volunteers and the booths the first run ended with.
C9_Determinism ==
    (pc = "done" /\ first_run # <<>>) => first_run = <<volunteers, booths>>

\* Two runs have ended, with placements made by continuity and by fallback.
C9_Witness ==
    /\ pc = "done"
    /\ first_run # <<>>
    /\ booth_index >= 2
    /\ \E i \in DOMAIN volunteers : Assigned(i, 5) /\ Assigned(i, 6)

\* C10: with no booth, a run raises no error and no volunteer gains a
\* booth for any shift.
C10_EmptyBooths ==
    Len(booths) = 0 =>
        /\ pc # "error"
        /\ \A i \in DOMAIN volunteers :
              DOMAIN volunteers[i].booths_per_shift = {}

\* A run with no booth and a candidate for every assignable shift has ended.
C10_Witness ==
    /\ pc = "done"
    /\ Len(booths) = 0
    /\ \A s \in {5, 6, 7} : \E i \in DOMAIN volunteers : s \in volunteers[i].shifts

\* C11: no booth ever has an occupant for setup (4) or cleanup (8), and no
\* volunteer ever has a booth recorded for shift 4 or 8.
C11_OnlyAssignable ==
    /\ \A b \in DOMAIN booths :
          booths[b].assignments[4] = <<>> /\ booths[b].assignments[8] = <<>>
    /\ \A i \in DOMAIN volunteers :
          DOMAIN volunteers[i].booths_per_shift \subseteq {5, 6, 7}

\* A run has ended in which a volunteer signed up for setup and one signed
\* up for cleanup were there, with booths that took volunteers.
C11_Witness ==
    /\ pc = "done"
    /\ \E i \in DOMAIN volunteers : 4 \in volunteers[i].shifts /\ Assigned(i, 5)
    /\ \E j \in DOMAIN volunteers : 8 \in volunteers[j].shifts
    /\ \E b \in DOMAIN booths : Len(booths[b].assignments[7]) > 0

\* C12: every run ends, and a fallback scan never makes more attempts than
\* there are booths.
C12_Terminates ==
    /\ <>(pc = "done")
    /\ [](attempts <= booth_count)

\* A run has ended in which a scan found the only booth full and gave up.
C12_Witness ==
    /\ pc = "done"
    /\ booth_count = 1
    /\ \E s \in {5, 6, 7} :
          /\ ~has_space(booths[1], s)
          /\ \E i \in DOMAIN volunteers : s \in volunteers[i].shifts /\ ~Assigned(i, s)

\* C13: the cursor is 0 when a run starts; a fallback attempt moves it by
\* exactly one, to just past the booth it tried, which is the booth that
\* receives the volunteer when the attempt succeeds; no other step of the
\* run changes it.
C13_Cursor ==
    [][/\ pc = "assign" => booth_index' = 0
       /\ pc = "for" => booth_index' = booth_index
       /\ pc = "while" =>
             \/ booth_index' = booth_index /\ attempts' = attempts
                    /\ booths' = booths /\ volunteers' = volunteers
             \/ /\ booth_index' = booth_index + 1
                /\ attempts' = attempts + 1
                /\ \/ booths' = booths /\ volunteers' = volunteers
                   \/ \E b \in DOMAIN booths :
                        /\ b - 1 = booth_index % booth_count
                        /\ b % booth_count = booth_index' % booth_count
                        /\ booths'[b].assignments[shift] =
                               Append(booths[b].assignments[shift], vol.email)
                        /\ \A c \in DOMAIN booths : c # b => booths'[c] = booths[c]]_vars

\* In a later shift the cursor has gone round the booths more than once.
C13_Witness ==
    /\ pc = "for"
    /\ shift_i >= 2
    /\ booth_count = 2
    /\ booth_index > booth_count

\* C14: a volunteer has a booth only for shifts of the shift-set the break
\* rule left, and is an occupant only for such shifts; a shift the break
\* rule removed gets neither.
C14_OnlySignedUp ==
    pc # "loaded" =>
        /\ \A i \in DOMAIN volunteers :
              DOMAIN volunteers[i].booths_per_shift \subseteq volunteers[i].shifts
        /\ \A b \in DOMAIN booths : \A s \in Shifts :
              \A k \in 1..Len(booths[b].assignments[s]) :
                  s \in volunteers[booths[b].assignments[s][k]].shifts
        /\ \A i \in DOMAIN volunteers :
              \A s \in signup[i].shifts \ volunteers[i].shifts :
                  /\ ~Assigned(i, s)
                  /\ \A b \in DOMAIN booths :
                        \A k \in 1..Len(booths[b].assignments[s]) :
                            booths[b].assignments[s][k] # volunteers[i].email

\* A volunteer who lost shift 7 to the break rule holds a booth for shift 6
\* and none for shift 7, for which a booth has room.
C14_Witness ==
    /\ pc = "done"
    /\ \E i \in DOMAIN volunteers :
          /\ 7 \in signup[i].shifts \ volunteers[i].shifts
          /\ Assigned(i, 6)
          /\ ~Assigned(i, 7)
    /\ \E b \in DOMAIN booths : has_space(booths[b], 7)

\* A name with its small letters made capital: names that differ in case
\* only become equal.
FoldCase(str) == [i \in DOMAIN str |-> IF str[i] \in 97..122 THEN str[i] - 32 ELSE str[i]]

\* Volunteer v1 is strictly before v2 by (last name, first name), case aside.
NameBefore(v1, v2) ==
    \/ StrLess(FoldCase(v1.last_name), FoldCase(v2.last_name))
    \/ /\ FoldCase(v1.last_name) = FoldCase(v2.last_name)
       /\ StrLess(FoldCase(v1.first_name), FoldCase(v2.first_name))

\* The place of volunteer e in the processing order.
Pos(e) == CHOOSE k \in DOMAIN sorted_volunteers : sorted_volunteers[k] = e

\* C15: the shifts are processed in the order 5, 6, 7 and the volunteers of a
\* shift in ascending (last name, first name) order, case aside: the
\* processing order fixed at the start of the run holds every volunteer
\* once, in ascending order, and is kept with the names to the end; the
\* loops only move forward; a booth is recorded only for an earlier shift
\* or for a volunteer already passed in the current one; and the occupant
\* lists are in processing order.
C15_Order ==
    /\ [][pc = "assign" =>
             /\ Len(sorted_volunteers') = Len(volunteers)
             /\ \A e \in DOMAIN volunteers : \E k \in DOMAIN sorted_volunteers' :
                   sorted_volunteers'[k] = e
             /\ \A j, k \in DOMAIN sorted_volunteers' :
                   j < k => ~NameBefore(volunteers[sorted_volunteers'[k]],
                                        volunteers[sorted_volunteers'[j]])]_vars
    /\ [][(pc \in {"assign", "for", "while"}) =>
             /\ (pc = "assign" \/ sorted_volunteers' = sorted_volunteers)
             /\ Len(volunteers') = Len(volunteers)
             /\ \A i \in DOMAIN volunteers :
                   /\ volunteers'[i].last_name = volunteers[i].last_name
                   /\ volunteers'[i].first_name = volunteers[i].first_name]_vars
    /\ [](pc \in {"for", "while", "done"} =>
            \A b \in DOMAIN booths : \A s \in Shifts :
                \A j, k \in 1..Len(booths[b].assignments[s]) :
                    j < k => Pos(booths[b].assignments[s][j])
                               < Pos(booths[b].assignments[s][k]))
    /\ [](pc \in {"for", "while"} =>
            /\ shift = 4 + shift_i
            /\ \A i \in DOMAIN volunteers :
                  \A s \in DOMAIN volunteers[i].booths_per_shift :
                      s < shift \/ (s = shift /\ Pos(i) < vol_i))
    /\ [][(pc \in {"for", "while"} /\ pc' \in {"for", "while"}) =>
             \/ shift_i' = shift_i + 1 /\ vol_i' = 1 /\ vol_i = Len(sorted_volunteers)
             \/ shift_i' = shift_i /\ vol_i' = vol_i + 1
             \/ shift_i' = shift_i /\ vol_i' = vol_i /\ pc' = "while"]_vars

\* A run has ended in which brown al, loaded after Brown Bo, stands before
\* Brown Bo in a booth's occupant list.
C15_Witness ==
    /\ pc = "done"
    /\ \E b \in DOMAIN booths : \E s \in {5, 6, 7} :
          /\ Len(booths[b].assignments[s]) = 2
          /\ LET e1 == booths[b].assignments[s][1]
                 e2 == booths[b].assignments[s][2]
             IN  /\ e1 > e2
                 /\ volunteers[e1].last_name = brown
                 /\ volunteers[e2].last_name = Brown

\* s is the beginning of t.
IsPrefix(s, t) == Len(s) <= Len(t) /\ SubSeq(t, 1, Len(s)) = s

\* C16: every step of a run leaves each occupant list as it was or with one
\* occupant more at its end, and leaves every booth recorded for a
\* volunteer and a shift as it was.
C16_AppendOnly ==
    [][/\ Len(booths') = Len(booths)
       /\ \A b \in DOMAIN booths : \A s \in Shifts :
             /\ IsPrefix(booths[b].assignments[s], booths'[b].assignments[s])
             /\ Len(booths'[b].assignments[s]) <= Len(booths[b].assignments[s]) + 1
       /\ Len(volunteers') = Len(volunteers)
       /\ \A i \in DOMAIN volunteers :
             \A s \in DOMAIN volunteers[i].booths_per_shift :
                 /\ s \in DOMAIN volunteers'[i].booths_per_shift
                 /\ volunteers'[i].booths_per_shift[s] =
                        volunteers[i].booths_per_shift[s]]_vars

\* A run has ended with a booth of two occupants for shift 5 and two for
\* shift 6, and a volunteer with a booth for both shifts.
C16_Witness ==
    /\ pc = "done"
    /\ \E b \in DOMAIN booths :
          Len(booths[b].assignments[5]) = 2 /\ Len(booths[b].assignments[6]) = 2
    /\ \E i \in DOMAIN volunteers : Assigned(i, 5) /\ Assigned(i, 6)

\* The number volunteer i of the input has in the input without the idle
\* volunteers.
Renumbered(i) == Cardinality({j \in 1..i : ~Idle(signup[j])})

\* C17: a volunteer with none of the shifts 5, 6, 7 after the break rule is
\* passed over without a change to the booths, the cursor or the volunteers,
\* and a run on the input without such volunteers ends with the same
\* cursor, the same occupant lists and the same booths for every other
\* volunteer as the run on the whole input.
C17_IdleNoEffect ==
    /\ []((pc = "done" /\ first_run # <<>>) =>
            LET fv == first_run[1]
                fb == first_run[2]
            IN  /\ booth_index = first_run[3]
                /\ Len(booths) = Len(fb)
                /\ \A b \in DOMAIN fb : \A s \in Shifts :
                      booths[b].assignments[s] =
                          [k \in DOMAIN fb[b].assignments[s] |->
                              Renumbered(fb[b].assignments[s][k])]
                /\ \A i \in DOMAIN fv :
                      IF Idle(signup[i])
                      THEN /\ DOMAIN fv[i].booths_per_shift = {}
                           /\ \A b \in DOMAIN fb : \A s \in Shifts :
                                 \A k \in DOMAIN fb[b].assignments[s] :
                                     fb[b].assignments[s][k] # i
                      ELSE volunteers[Renumbered(i)].booths_per_shift =
                               fv[i].booths_per_shift)
    /\ [][(pc = "for" /\ vol.shifts \cap {5, 6, 7} = {}) =>
             UNCHANGED <<volunteers, booths, booth_index>>]_vars

\* Both runs have ended; the input had an idle volunteer loaded before
\* another volunteer that a fallback gave a booth, and the cursor has moved.
C17_Witness ==
    /\ pc = "done"
    /\ first_run # <<>>
    /\ booth_index >= 2
    /\ \E i, j \in DOMAIN signup :
          /\ i < j
          /\ Idle(signup[i])
          /\ ~Idle(signup[j])
          /\ 5 \in DOMAIN volunteers[Renumbered(j)].booths_per_shift

\* The number of occupants of booth b for shift s.
Occupants(b, s) == Len(booths[b].assignments[s])

\* C18: for shift 5 no booth ever has a second occupant while another booth
\* is empty, and once shift 5 has been processed the numbers of occupants
\* of any two booths differ by at most one.
C18_EvenSpread ==
    /\ \A b1, b2 \in DOMAIN booths : ~(Occupants(b1, 5) >= 2 /\ Occupants(b2, 5) = 0)
    /\ (pc = "done" \/ (pc \in {"for", "while"} /\ shift > 5)) =>
          \A b1, b2 \in DOMAIN booths : Occupants(b1, 5) <= Occupants(b2, 5) + 1

\* Shift 5 has been processed with two booths and three candidates: one
\* booth has two occupants and the other one.
C18_Witness ==
    /\ pc = "for"
    /\ shift = 6
    /\ Len(booths) = 2
    /\ Occupants(1, 5) = 2
    /\ Occupants(2, 5) = 1

\* C19: in every state of a run on loaded input with booths of different
\* names, a volunteer has booth B recorded for shift S exactly if the
\* volunteer is in the occupant list of B for S, and a volunteer is at most
\* once in the occupant lists of a shift: every occupant has that booth
\* recorded and stands nowhere else in the lists of the shift, and every
\* recorded booth has the volunteer in its list.
C19_TwoSidesAgree ==
    /\ \A b \in DOMAIN booths : \A s \in Shifts :
          \A k \in DOMAIN booths[b].assignments[s] :
              LET i == booths[b].assignments[s][k] IN
              /\ i \in DOMAIN volunteers
              /\ Assigned(i, s)
              /\ volunteers[i].booths_per_shift[s] = booths[b].name
              /\ \A b2 \in DOMAIN booths :
                    \A k2 \in DOMAIN booths[b2].assignments[s] :
                        booths[b2].assignments[s][k2] = i => (b2 = b /\ k2 = k)
    /\ \A i \in DOMAIN volunteers :
          \A s \in DOMAIN volunteers[i].booths_per_shift :
              \E b \in DOMAIN booths :
                  /\ booths[b].name = volunteers[i].booths_per_shift[s]
                  /\ \E k \in DOMAIN booths[b].assignments[s] :
                        booths[b].assignments[s][k] = i

\* A volunteer has a booth by fallback for shift 5 and by continuity for
\* shift 6, and another volunteer stands in the same lists.
C19_Witness ==
    /\ pc = "done"
    /\ \E i, j \in DOMAIN volunteers : \E b \in DOMAIN booths :
          /\ i # j
          /\ booths[b].assignments[5] = <<i, j>>
          /\ booths[b].assignments[6] = <<i, j>>
          /\ volunteers[i].booths_per_shift[6] = booths[b].name
          /\ volunteers[j].booths_per_shift[6] = booths[b].name

\* The volunteers signed up for shift s, after the break rule.
CandidateSet(s) == { i \in DOMAIN volunteers : s \in volunteers[i].shifts }

\* C20: at the end of a run, for S = 5 and S = 6, if every candidate of
\* shift S+1 is a candidate of shift S, then every volunteer with a booth
\* for S who is a candidate of S+1 has the same booth for S+1.
C20_NobodyNewKeepsBooth ==
    pc = "done" =>
        \A s \in {5, 6} :
            CandidateSet(s + 1) \subseteq CandidateSet(s) =>
                \A i \in CandidateSet(s + 1) :
                    Assigned(i, s) =>
                        /\ Assigned(i, s + 1)
                        /\ volunteers[i].booths_per_shift[s + 1] =
                               volunteers[i].booths_per_shift[s]

\* A run has ended in which nobody joined for shift S+1, a volunteer kept
\* the booth of shift S, and a candidate left without a booth for S got
\* one for S+1 by fallback.
C20_Witness ==
    /\ pc = "done"
    /\ \E s \in {5, 6} :
          /\ CandidateSet(s + 1) \subseteq CandidateSet(s)
          /\ \E i, j \in CandidateSet(s + 1) :
                /\ Assigned(i, s)
                /\ Assigned(i, s + 1)
                /\ ~Assigned(j, s)
                /\ Assigned(j, s + 1)

=============================================================================
